---- MODULE Spec2Model ----
(***************************************************************************)
(* Session execution engine of easterseals-v2.                             *)
(*                                                                         *)
(*   - the zustand session store        (client/src/stores/useSessionStore) *)
(*   - the Session page and its handlers (client/src/pages/Session.tsx)     *)
(*   - the external input hook           (client/src/lib/useExternalInput)  *)
(*   - the configuration normalizer      (client/src/lib/normalizeConfig)   *)
(*                                                                         *)
(* JavaScript runs one task at a time.  Every action below is one task     *)
(* (an event handler, a timer callback, an animation frame, the            *)
(* continuation of an await on the network) followed by React's            *)
(* synchronous re-render, which refreshes what the handlers' closures and  *)
(* stateRef.current see.  Inside one task the closures keep the values of  *)
(* the render that created them, while the store is updated in place.      *)
(***************************************************************************)
EXTENDS Integers, Sequences, FiniteSets, TLC

(* ------------------------------ bounds --------------------------------- *)

\* Activations scored per session.
MaxClicks == 4

\* Activations with an unknown input id delivered per session.
MaxUnknown == 1

\* Activations scored per session where two sessions are explored.
MaxReuseClicks == 2

\* Activations scored per session where failed appends and unknown ids are
\* explored.
MaxFaultClicks == 3

(* --------------------------- JavaScript values -------------------------- *)

\* Values of stored (JSON) configurations carry their JavaScript type.  null,
\* undefined and an absent property are one value: the normalizer reads them
\* only through `??`, `!= null`, `!x` and Array.isArray, which do not tell
\* them apart.
JNull == [t |-> "null"]
JNum(n) == [t |-> "num", v |-> n]
JStr(s) == [t |-> "str", s |-> s]
JBool(b) == [t |-> "bool", b |-> b]
JArr(a) == [t |-> "arr", a |-> a]
JObj(o) == [t |-> "obj", o |-> o]

\* v ?? d
Coalesce(v, d) == IF v.t = "null" THEN d ELSE v

\* !v
Falsy(v) ==
  \/ v.t = "null"
  \/ v.t = "bool" /\ ~v.b
  \/ v.t = "num" /\ v.v = 0
  \/ v.t = "str" /\ v.s = ""

\* v[f] of a non-null value
Prop(v, f) == IF v.t = "obj" /\ f \in DOMAIN v.o THEN v.o[f] ELSE JNull

\* Array.isArray(v)
IsArray(v) == v.t = "arr"

(* ------------------------- configuration normalizer --------------------- *)

isLegacyConfig(r) == ~IsArray(Prop(r, "inputs")) /\ Prop(r, "leftButton").t # "null"

ButtonPositions == <<"left", "middle", "right">>

\* `${pos.charAt(0).toUpperCase()}${pos.slice(1)}`
Capitalized(pos) ==
  IF pos = "left" THEN "Left" ELSE IF pos = "middle" THEN "Middle" ELSE "Right"

\* The mutant rewards every button as soon as a marker is stored.
LegacyScreenInputMarked(r, pos) ==
  LET btn == Prop(r, pos \o "Button")
      isActive == Prop(r, "buttonActive").t # "null"
  IN IF Falsy(btn) THEN << >>
     ELSE << JObj([id |-> JStr("screen-" \o pos),
                   name |-> JStr(Capitalized(pos)),
                   type |-> JStr("screen"),
                   shape |-> Coalesce(Prop(btn, "shape"), JStr("circle")),
                   color |-> Coalesce(Prop(btn, "color"), JStr("#5ccc96")),
                   isRewarded |-> JBool(isActive),
                   moneyAwarded |-> IF isActive THEN Coalesce(Prop(r, "moneyAwarded"), JNum(5)) ELSE JNum(5),
                   awardInterval |-> IF isActive THEN Coalesce(Prop(r, "awardInterval"), JNum(10)) ELSE JNum(10),
                   playAwardSound |-> IF isActive THEN Coalesce(Prop(r, "playAwardSound"), JBool(TRUE)) ELSE JBool(TRUE)]) >>

\* The screen input pushed for one legacy button position; << >> when the
\* position's button is falsy and skipped.
LegacyScreenInput(r, pos) ==
  LET btn == Prop(r, pos \o "Button")
      isActive == Prop(r, "buttonActive") = JStr(pos)
  IN IF Falsy(btn) THEN << >>
     ELSE << JObj([id |-> JStr("screen-" \o pos),
                   name |-> JStr(Capitalized(pos)),
                   type |-> JStr("screen"),
                   shape |-> Coalesce(Prop(btn, "shape"), JStr("circle")),
                   color |-> Coalesce(Prop(btn, "color"), JStr("#5ccc96")),
                   isRewarded |-> JBool(isActive),
                   moneyAwarded |-> IF isActive THEN Coalesce(Prop(r, "moneyAwarded"), JNum(5)) ELSE JNum(5),
                   awardInterval |-> IF isActive THEN Coalesce(Prop(r, "awardInterval"), JNum(10)) ELSE JNum(10),
                   playAwardSound |-> IF isActive THEN Coalesce(Prop(r, "playAwardSound"), JBool(TRUE)) ELSE JBool(TRUE)]) >>

\* The physical input pushed for one entry of the legacy externalInputs list.
LegacyExternalInput(ext) ==
  JObj([id |-> Prop(ext, "id"),
        name |-> Coalesce(Prop(ext, "name"), JStr("")),
        type |-> Coalesce(Prop(ext, "inputType"), JStr("keyboard")),
        inputCode |-> Prop(ext, "inputCode"),
        inputLabel |-> Prop(ext, "inputLabel"),
        isRewarded |-> Coalesce(Prop(ext, "isActive"), JBool(FALSE)),
        moneyAwarded |-> Coalesce(Prop(ext, "moneyAwarded"), JNum(5)),
        awardInterval |-> Coalesce(Prop(ext, "awardInterval"), JNum(10)),
        playAwardSound |-> Coalesce(Prop(ext, "playAwardSound"), JBool(TRUE))])

LegacyInputs(r) ==
  LET ext == Prop(r, "externalInputs")
  IN LegacyScreenInput(r, ButtonPositions[1])
       \o LegacyScreenInput(r, ButtonPositions[2])
       \o LegacyScreenInput(r, ButtonPositions[3])
       \o (IF IsArray(ext) THEN [k \in DOMAIN ext.a |-> LegacyExternalInput(ext.a[k])]
           ELSE << >>)

\* The mutant keeps the stored object's own fields in the result
\* (`return { ...raw, timeLimit: ..., inputs }`).
convertLegacyConfigSpread(r) ==
  JObj([f \in DOMAIN r.o \cup {"timeLimit", "moneyLimit", "startingMoney",
                               "continueAfterMoneyLimit", "inputs"} |->
          CASE f = "timeLimit" -> Coalesce(Prop(r, "timeLimit"), JNum(60))
            [] f = "moneyLimit" -> Coalesce(Prop(r, "moneyLimit"), JNum(1000000))
            [] f = "startingMoney" -> Coalesce(Prop(r, "startingMoney"), JNum(0))
            [] f = "continueAfterMoneyLimit" -> Coalesce(Prop(r, "continueAfterMoneyLimit"), JBool(TRUE))
            [] f = "inputs" -> JArr(LegacyInputs(r))
            [] OTHER -> r.o[f]])

convertLegacyConfig(r) ==
  JObj([timeLimit |-> Coalesce(Prop(r, "timeLimit"), JNum(60)),
        moneyLimit |-> Coalesce(Prop(r, "moneyLimit"), JNum(1000000)),
        startingMoney |-> Coalesce(Prop(r, "startingMoney"), JNum(0)),
        continueAfterMoneyLimit |-> Coalesce(Prop(r, "continueAfterMoneyLimit"), JBool(TRUE)),
        inputs |-> JArr(LegacyInputs(r))])

normalizeConfig(r) ==
  IF isLegacyConfig(r) THEN convertLegacyConfig(r)
  ELSE JObj([timeLimit |-> Coalesce(Prop(r, "timeLimit"), JNum(60)),
             moneyLimit |-> Coalesce(Prop(r, "moneyLimit"), JNum(1000000)),
             startingMoney |-> Coalesce(Prop(r, "startingMoney"), JNum(0)),
             continueAfterMoneyLimit |-> Coalesce(Prop(r, "continueAfterMoneyLimit"), JBool(TRUE)),
             inputs |-> Coalesce(Prop(r, "inputs"), JArr(<< >>))])

\* normalizeSessionConfig adds sessionId and configId, which no handler of
\* the session reads back from the configuration.
normalizeSessionConfig(r) == normalizeConfig(r)

(* ------------------------- configurations ------------------------------ *)

\* Input ids of the session configurations explored, with their kinds.
ScreenIds == {"s1"}
KeyboardIds == {"k1"}
GamepadIds == {"g1", "g2"}
InputOrder == <<"s1", "k1", "g1", "g2">>

TypeOf(id) ==
  IF id \in ScreenIds THEN "screen"
  ELSE IF id \in KeyboardIds THEN "keyboard"
  ELSE IF id = "g1" THEN "gamepad_button" ELSE "gamepad_axis"

MkInput(id, rewarded, amount, interval) ==
  JObj([id |-> JStr(id), type |-> JStr(TypeOf(id)), shape |-> JStr("circle"),
        isRewarded |-> JBool(rewarded), moneyAwarded |-> JNum(amount),
        awardInterval |-> JNum(interval)])

\* A stored configuration in the current format.
MkConfig(limit, start, cont, rewardedIds, amount, interval) ==
  JObj([timeLimit |-> JNum(60), moneyLimit |-> JNum(limit),
        startingMoney |-> JNum(start), continueAfterMoneyLimit |-> JBool(cont),
        inputs |-> JArr([k \in 1..Len(InputOrder) |->
                 MkInput(InputOrder[k], InputOrder[k] \in rewardedIds, amount, interval)])])

MoneyLimits == {10}
StartingMoneys == {0, 4}
MoneyAwardeds == {3, 7}
AwardIntervals == {1, 2, 3}
RewardedSets == {{"s1"}, {"g1", "g2"}, {"s1", "k1"}, {"k1", "g1"}}

Configs ==
  { MkConfig(l, s, c, r, a, n) :
      l \in MoneyLimits, s \in StartingMoneys, c \in BOOLEAN,
      r \in RewardedSets, a \in MoneyAwardeds, n \in AwardIntervals }

\* The configuration as the TypeScript code reads it (SessionConfig): the
\* model's type tags dropped.  Defined on well-typed configurations.
TypedInput(x) ==
  [id |-> x.o.id.s, type |-> x.o.type.s, shape |-> Prop(x, "shape"),
   isRewarded |-> x.o.isRewarded.b, moneyAwarded |-> x.o.moneyAwarded.v,
   awardInterval |-> x.o.awardInterval.v]

Typed(c) ==
  [timeLimit |-> c.o.timeLimit.v, moneyLimit |-> c.o.moneyLimit.v,
   startingMoney |-> c.o.startingMoney.v,
   continueAfterMoneyLimit |-> c.o.continueAfterMoneyLimit.b,
   inputs |-> [k \in DOMAIN c.o.inputs.a |-> TypedInput(c.o.inputs.a[k])]]

VARIABLES
  raw,            \* the stored configuration the server returns for the session
  store,          \* the zustand store
  stateRef,       \* what the last render saw: closures and stateRef.current
  pc,             \* progress of loadSessionConfig
  timer,          \* the time-limit timer: "unarmed", "armed", "fired"
  log,            \* append requests issued to the event log, in issue order
  endCalls,       \* api.endSession requests issued
  pending,        \* activations suspended in `await handleMoneyLimitEnd()`
  calls,          \* how often startSession / endSession of the store have run
  scores,         \* history: what each accepted activation did to the store
  earlier,        \* history: an earlier session has run on this store
  rejections,     \* rejected activation handler promises (failed `click` append): activations scored by then
  unknownCalls,   \* history: activations delivered with an id the configuration lacks
  budget          \* the activations explored per session

sessionVars == <<raw, store, stateRef, pc, timer, log, endCalls, pending, calls, scores,
                 earlier, rejections, unknownCalls, budget>>

VARIABLES
  now,            \* Date.now(), in ms
  enabled,        \* the hook's `enabled` prop: "idle" (not yet), "on", "off"
  pad,            \* gamepad 0: connected, its button 0, its axis 0 (in tenths)
  hook,           \* the hook's refs: lastTrigger and prevGamepadState
  counted,        \* activations handed to the activation handler, per input
  arrivals,       \* history: raw activations (clicks, keydowns, press edges)
  lastCountedAt,  \* history: when each input's last counted activation came
  sampled,        \* history: each control's state at the previous poll
  heldPolls,      \* history: consecutive polls that found each control pressed
  disconnects,    \* history: how often the gamepad was disconnected
  reconnected     \* history: the gamepad has reconnected and no poll has sampled it since

inputVars == <<now, enabled, pad, hook, counted, arrivals, lastCountedAt, sampled, heldPolls, disconnects, reconnected>>

VARIABLES
  nraw,           \* a stored configuration handed to normalizeConfig
  nout,           \* normalizeConfig(nraw)
  nout2,          \* normalizeConfig(nout)
  npc             \* "raw", "normalized", "renormalized"

normVars == <<nraw, nout, nout2, npc>>

VARIABLES
  rows,           \* the server's sessions table: the stored rows
  lastStart,      \* history: what the last POST /sessions/start did
  starts,         \* history: POST /sessions/start requests served
  deletes         \* history: DELETE /sessions/:sessionId requests served

serverVars == <<rows, lastStart, starts, deletes>>

vars == <<sessionVars, inputVars, normVars, serverVars>>

(* ----------------------------- the store ------------------------------- *)

InputIdsOf(config) == { config.inputs[k].id : k \in DOMAIN config.inputs }

\* create(): the store before any configuration is set.
InitialStore ==
  [config |-> JNull, moneyCounter |-> 0, totalClicks |-> 0,
   inputClickCounts |-> << >>, inputIntervalCounters |-> << >>,
   moneyLimitReached |-> FALSE, timeLimitReached |-> FALSE,
   sessionActive |-> FALSE]

setConfig(s, config) ==
  [s EXCEPT !.config = config,
            !.moneyCounter = config.startingMoney,
            !.totalClicks = 0,
            !.inputClickCounts = [i \in InputIdsOf(config) |-> 0],
            !.inputIntervalCounters = [i \in InputIdsOf(config) |-> 0]]

\* m[inputId] ?? 0
Get0(m, inputId) == IF inputId \in DOMAIN m THEN m[inputId] ELSE 0

\* { ...m, [inputId]: v }
Put(m, inputId, v) ==
  [i \in DOMAIN m \cup {inputId} |-> IF i = inputId THEN v ELSE m[i]]

\* The mutant leaves a non-rewarded input's activation out of the total.
incrementClickRewarded(s, inputId) ==
  [s EXCEPT !.totalClicks =
              IF \E k \in DOMAIN s.config.inputs :
                   s.config.inputs[k].id = inputId /\ s.config.inputs[k].isRewarded
              THEN @ + 1 ELSE @,
            !.inputClickCounts = Put(@, inputId, Get0(@, inputId) + 1)]

incrementClick(s, inputId) ==
  [s EXCEPT !.totalClicks = @ + 1,
            !.inputClickCounts = Put(@, inputId, Get0(@, inputId) + 1)]

incrementInterval(s, inputId) ==
  [s EXCEPT !.inputIntervalCounters = Put(@, inputId, Get0(@, inputId) + 1)]

\* The mutant clears every input's interval counter.
resetIntervalAll(s, inputId) ==
  [s EXCEPT !.inputIntervalCounters = [i \in DOMAIN @ |-> 0]]

resetInterval(s, inputId) ==
  [s EXCEPT !.inputIntervalCounters = Put(@, inputId, 0)]

awardMoney(s, cents) == [s EXCEPT !.moneyCounter = @ + cents]

setMoneyLimitReached(s, reached) == [s EXCEPT !.moneyLimitReached = reached]

setTimeLimitReached(s, reached) == [s EXCEPT !.timeLimitReached = reached]

startSession(s) == [s EXCEPT !.sessionActive = TRUE]

endSession(s) == [s EXCEPT !.sessionActive = FALSE]

(* --------------------------- Session.tsx ------------------------------- *)

\* What one task has done so far: the store, the requests issued, the
\* activations waiting for the network (pending) and those resumed after
\* the re-render at the end of the task (micro); rewards counts the award
\* intervals completed in the task, for the history in scores.
Machine ==
  [store |-> store, log |-> log, endCalls |-> endCalls,
   pending |-> pending, micro |-> << >>, calls |-> calls, scores |-> scores,
   rewards |-> 0]

\* A lookup that falls back to the first configured input.
FindInputOrFirst(config, inputId) ==
  LET hits == { k \in DOMAIN config.inputs : config.inputs[k].id = inputId }
  IN IF hits = {} THEN (IF config.inputs = << >> THEN JNull ELSE config.inputs[1])
     ELSE config.inputs[CHOOSE k \in hits : \A j \in hits : k <= j]

FindInput(config, inputId) ==
  LET hits == { k \in DOMAIN config.inputs : config.inputs[k].id = inputId }
  IN IF hits = {} THEN JNull
     ELSE config.inputs[CHOOSE k \in hits : \A j \in hits : k <= j]

\* The `click` record of lines 204-223: c is the handler's closure, ref is
\* stateRef.current when the record is built.
ClickRecord(c, ref, inputId, awardedCents) ==
  [event |-> "click", inputId |-> inputId,
   clicks |-> Put(ref.inputClickCounts, inputId, Get0(ref.inputClickCounts, inputId) + 1),
   totalClicks |-> ref.totalClicks + 1,
   awardedCents |-> awardedCents,
   moneyCounter |-> c.moneyCounter + awardedCents,
   moneyLimitReached |-> c.moneyLimitReached,
   timeLimitReached |-> c.timeLimitReached]

EndRecord(money, moneyLimit, timeLimit, clicks, total) ==
  [event |-> "end", moneyCounter |-> money, moneyLimitReached |-> moneyLimit,
   timeLimitReached |-> timeLimit, clicks |-> clicks, totalClicks |-> total]

\* handleMoneyLimitEnd up to its await; c is the closure of the render.
handleMoneyLimitEnd(c, m) ==
  IF c.moneyLimitReached \/ c.config = JNull THEN m
  ELSE LET m1 == [m EXCEPT !.store = setMoneyLimitReached(@, TRUE)]
       IN IF ~c.config.continueAfterMoneyLimit
          THEN [m1 EXCEPT !.store = endSession(@),
                          !.calls.endSession = @ + 1,
                          !.log = Append(@, EndRecord(c.moneyCounter, TRUE, c.timeLimitReached,
                                                      c.inputClickCounts, c.totalClicks)),
                          !.endCalls = @ + 1]
          ELSE m1

\* Whether `await handleMoneyLimitEnd()` waits for the network.
MoneyLimitEndAwaitsNetwork(c) ==
  ~(c.moneyLimitReached \/ c.config = JNull) /\ ~c.config.continueAfterMoneyLimit

\* The activation as it waits in `await handleMoneyLimitEnd()`.
Suspended(c, inputId, awardedCents) ==
  [inputId |-> inputId, awardedCents |-> awardedCents,
   moneyCounter |-> c.moneyCounter, moneyLimitReached |-> c.moneyLimitReached,
   timeLimitReached |-> c.timeLimitReached]

LogClick(c, m, inputId, awardedCents) ==
  [m EXCEPT !.log = Append(@, ClickRecord(c, c, inputId, awardedCents))]

\* The branch of lines 190-194: the award reaches the limit.
AwardToLimit(c, m, inputId) ==
  LET awardedCents == c.config.moneyLimit - c.moneyCounter
      m1 == [m EXCEPT !.store = awardMoney(@, awardedCents)]
      m2 == handleMoneyLimitEnd(c, m1)
  IN IF MoneyLimitEndAwaitsNetwork(c)
     THEN [m2 EXCEPT !.pending = Append(@, Suspended(c, inputId, awardedCents))]
     ELSE [m2 EXCEPT !.micro = Append(@, Suspended(c, inputId, awardedCents))]

\* handleInputActivation up to its first await, run with the closure c of
\* the render that created it.  When it runs, stateRef.current is c.
Scoring(c, m, inputId) ==
  IF c.config = JNull THEN m
  ELSE IF ~c.sessionActive /\ ~(c.config.continueAfterMoneyLimit /\ c.moneyLimitReached) THEN m
  ELSE LET inputConfig == FindInput(c.config, inputId)
       IN IF inputConfig = JNull THEN m
          ELSE LET m1 == [m EXCEPT !.store = incrementClick(@, inputId)]
               IN IF inputConfig.isRewarded /\ ~c.moneyLimitReached
                  THEN LET m2 == [m1 EXCEPT !.store = incrementInterval(@, inputId)]
                           newInterval == m2.store.inputIntervalCounters[inputId]
                       IN IF newInterval >= inputConfig.awardInterval
                          THEN LET m3 == [m2 EXCEPT !.store = resetInterval(@, inputId),
                                                     !.rewards = @ + 1]
                                   potentialNewTotal == c.moneyCounter + inputConfig.moneyAwarded
                               IN IF potentialNewTotal >= c.config.moneyLimit
                                  THEN AwardToLimit(c, m3, inputId)
                                  ELSE LogClick(c, [m3 EXCEPT !.store = awardMoney(@, inputConfig.moneyAwarded)],
                                                inputId, inputConfig.moneyAwarded)
                          ELSE LogClick(c, m2, inputId, 0)
                  ELSE LogClick(c, m1, inputId, 0)

\* History of the activations the handler accepted: the balance and limit
\* flag its closure read (seen...), the store's balance and limit flag before
\* and after, and whether an award interval completed.
Score(c, m, n, inputId) ==
  [inputId |-> inputId,
   seenBalance |-> c.moneyCounter,
   seenLimitReached |-> c.moneyLimitReached,
   limitReachedBefore |-> m.store.moneyLimitReached,
   limitReachedAfter |-> n.store.moneyLimitReached,
   before |-> m.store.moneyCounter,
   after |-> n.store.moneyCounter,
   countBefore |-> Get0(m.store.inputClickCounts, inputId),
   count |-> Get0(n.store.inputClickCounts, inputId),
   completed |-> n.rewards > m.rewards]

handleInputActivation(c, m, inputId) ==
  LET n == Scoring(c, m, inputId)
  IN IF n = m THEN m
     ELSE [n EXCEPT !.scores = Append(@, Score(c, m, n, inputId))]

\* The activations of one task, in order, all with the same closure.
RECURSIVE Activations(_, _, _)
Activations(c, m, ids) ==
  IF ids = << >> THEN m
  ELSE Activations(c, handleInputActivation(c, m, Head(ids)), Tail(ids))

\* The activations that resume after the re-render, in the same task:
\* each logs its click with the re-rendered stateRef.current.
RECURSIVE Resume(_, _, _)
Resume(lg, ref, micro) ==
  IF micro = << >> THEN lg
  ELSE Resume(Append(lg, ClickRecord(Head(micro), ref, Head(micro).inputId, Head(micro).awardedCents)),
              ref, Tail(micro))

\* The end of a task: React re-renders from the store, then the
\* activations suspended on an already settled promise resume.
Commit(m) ==
  /\ store' = m.store
  /\ stateRef' = m.store
  /\ log' = Resume(m.log, m.store, m.micro)
  /\ endCalls' = m.endCalls
  /\ pending' = m.pending
  /\ calls' = m.calls
  /\ scores' = m.scores

\* isDisabled of line 280, and `enabled` of line 238 negated.
isDisabled(c) ==
  c.config = JNull
  \/ (~c.sessionActive /\ ~(c.config.continueAfterMoneyLimit /\ c.moneyLimitReached))

\* The buttons rendered (line 281).
ScreenInputs(c) ==
  IF c.config = JNull THEN {}
  ELSE { c.config.inputs[k].id : k \in { j \in DOMAIN c.config.inputs :
           c.config.inputs[j].type = "screen" /\ c.config.inputs[j].shape # JStr("none") } }

\* The inputs of the given kinds the external input hook listens to.
PhysicalInputs(c, types) ==
  IF c.config = JNull THEN << >>
  ELSE SelectSeq([k \in DOMAIN c.config.inputs |-> c.config.inputs[k]],
                 LAMBDA i : i.type \in types)

(* loadSessionConfig *)

\* The mutant loads again whenever the effect runs, sessionInitializedRef
\* ignored.
LoadSessionConfigAgain ==
  /\ pc \in {"init", "running"}
  /\ pc' = "loading"
  /\ UNCHANGED <<raw, store, stateRef, timer, log, endCalls, pending, calls, scores>>
  /\ UNCHANGED <<earlier, rejections, unknownCalls, budget, inputVars, normVars, serverVars>>

\* sessionInitializedRef lets the load run once.
LoadSessionConfig ==
  /\ pc = "init"
  /\ pc' = "loading"
  /\ UNCHANGED <<raw, store, stateRef, timer, log, endCalls, pending, calls, scores>>
  /\ UNCHANGED <<earlier, rejections, unknownCalls, budget, inputVars, normVars, serverVars>>

\* getSessionData has answered: the configuration is normalized and set,
\* and the `start` record is issued.
LoadOk ==
  /\ pc = "loading"
  /\ LET sessionConfig == Typed(normalizeSessionConfig(raw))
         m == [Machine EXCEPT
                 !.store = setConfig(@, sessionConfig),
                 !.log = Append(@, [event |-> "start",
                                    moneyCounter |-> sessionConfig.startingMoney,
                                    moneyLimitReached |-> FALSE,
                                    timeLimitReached |-> FALSE])]
     IN Commit(m)
  /\ pc' = "starting"
  /\ UNCHANGED <<raw, timer>>
  /\ UNCHANGED <<earlier, rejections, unknownCalls, budget, inputVars, normVars, serverVars>>

LoadFail ==
  /\ pc = "loading"
  /\ pc' = "failed"
  /\ UNCHANGED <<raw, store, stateRef, timer, log, endCalls, pending, calls, scores>>
  /\ UNCHANGED <<earlier, rejections, unknownCalls, budget, inputVars, normVars, serverVars>>

\* The `start` append is acknowledged: the session starts, the timer is armed.
StartAck ==
  /\ pc = "starting"
  /\ Commit([Machine EXCEPT !.store = startSession(@), !.calls.startSession = @ + 1])
  /\ timer' = "armed"
  /\ pc' = "running"
  /\ UNCHANGED raw
  /\ UNCHANGED <<earlier, rejections, unknownCalls, budget, inputVars, normVars, serverVars>>

StartFail ==
  /\ pc = "starting"
  /\ pc' = "failed"
  /\ UNCHANGED <<raw, store, stateRef, timer, log, endCalls, pending, calls, scores>>
  /\ UNCHANGED <<earlier, rejections, unknownCalls, budget, inputVars, normVars, serverVars>>

(* handleTimeLimitEnd, called by the timer *)

handleTimeLimitEnd(ref, m) ==
  IF ref.timeLimitReached THEN m
  ELSE [m EXCEPT !.store = endSession(setTimeLimitReached(@, TRUE)),
                 !.calls.endSession = @ + 1,
                 !.log = Append(@, EndRecord(ref.moneyCounter, ref.moneyLimitReached, TRUE,
                                             ref.inputClickCounts, ref.totalClicks)),
                 !.endCalls = @ + 1]

TimerFire ==
  /\ timer = "armed"
  /\ timer' = "fired"
  /\ Commit(handleTimeLimitEnd(stateRef, Machine))
  /\ UNCHANGED <<raw, pc>>
  /\ UNCHANGED <<earlier, rejections, unknownCalls, budget, inputVars, normVars, serverVars>>

(* activations *)

\* A click on a rendered, enabled screen button.
ScreenClick(inputId) ==
  /\ pc \in {"starting", "running"}
  /\ ~isDisabled(stateRef)
  /\ inputId \in ScreenInputs(stateRef)
  /\ Len(scores) < budget
  /\ Commit(handleInputActivation(stateRef, Machine, inputId))
  /\ UNCHANGED <<raw, pc, timer>>
  /\ UNCHANGED <<earlier, rejections, unknownCalls, budget, inputVars, normVars, serverVars>>

\* A keydown of a configured key that passes canTrigger.
KeyDown(k) ==
  /\ ~isDisabled(stateRef)
  /\ k \in DOMAIN PhysicalInputs(stateRef, {"keyboard"})
  /\ Len(scores) < budget
  /\ Commit(handleInputActivation(stateRef, Machine, PhysicalInputs(stateRef, {"keyboard"})[k].id))
  /\ UNCHANGED <<raw, pc, timer>>
  /\ UNCHANGED <<earlier, rejections, unknownCalls, budget, inputVars, normVars, serverVars>>

\* One animation frame of the gamepad polling loop: the configured controls
\* whose press edge passes canTrigger in this frame call onInput in turn.
PollFrame(edges) ==
  /\ ~isDisabled(stateRef)
  /\ edges # {}
  /\ Len(scores) + Cardinality(edges) <= budget
  /\ LET gp == PhysicalInputs(stateRef, {"gamepad_button", "gamepad_axis"})
         fired == SelectSeq(gp, LAMBDA i : i.id \in edges)
     IN /\ edges \subseteq { gp[k].id : k \in DOMAIN gp }
        /\ Commit(Activations(stateRef, Machine, [k \in DOMAIN fired |-> fired[k].id]))
  /\ UNCHANGED <<raw, pc, timer>>
  /\ UNCHANGED <<earlier, rejections, unknownCalls, budget, inputVars, normVars, serverVars>>

\* The requests of a ceiling-caused end have both succeeded: the suspended
\* activation resumes and logs its click.
EndAck(k) ==
  /\ k \in DOMAIN pending
  /\ log' = Append(log, ClickRecord(pending[k], stateRef, pending[k].inputId, pending[k].awardedCents))
  /\ pending' = [j \in 1..(Len(pending) - 1) |-> IF j < k THEN pending[j] ELSE pending[j + 1]]
  /\ UNCHANGED <<raw, store, stateRef, pc, timer, endCalls, calls, scores>>
  /\ UNCHANGED <<earlier, rejections, unknownCalls, budget, inputVars, normVars, serverVars>>

\* One of them failed: handleMoneyLimitEnd throws, so does the activation
\* handler, and its click is never logged.
EndFail(k) ==
  /\ k \in DOMAIN pending
  /\ pending' = [j \in 1..(Len(pending) - 1) |-> IF j < k THEN pending[j] ELSE pending[j + 1]]
  /\ UNCHANGED <<raw, store, stateRef, pc, timer, log, endCalls, calls, scores>>
  /\ UNCHANGED <<earlier, rejections, unknownCalls, budget, inputVars, normVars, serverVars>>

(* a failed `click` append, an unknown input, the next session *)

ClickRecords == { k \in DOMAIN log : log[k].event = "click" }

\* A rejected `click` append that also ends the session locally.
ClickAppendFailEnding ==
  /\ Len(rejections) < Cardinality(ClickRecords)
  /\ rejections' = Append(rejections, Len(scores))
  /\ store' = endSession(store)
  /\ stateRef' = store'
  /\ UNCHANGED <<raw, pc, timer, log, endCalls, pending, calls, scores>>
  /\ UNCHANGED <<earlier, unknownCalls, budget, inputVars, normVars, serverVars>>

\* api.logEvent of a `click` record rejects: the `await` of line 209 throws
\* and the promise handleInputActivation returned to its caller rejects.
\* Nothing of the handler runs after that await.
ClickAppendFail ==
  /\ Len(rejections) < Cardinality(ClickRecords)
  /\ rejections' = Append(rejections, Len(scores))
  /\ UNCHANGED <<raw, store, stateRef, pc, timer, log, endCalls, pending, calls, scores>>
  /\ UNCHANGED <<earlier, unknownCalls, budget, inputVars, normVars, serverVars>>

\* An id that no configuration explored here contains.
UnknownId == "zz"

\* The activation handler called with an id the configuration lacks.
UnknownActivation ==
  /\ unknownCalls < MaxUnknown
  /\ unknownCalls' = unknownCalls + 1
  /\ Commit(handleInputActivation(stateRef, Machine, UnknownId))
  /\ UNCHANGED <<raw, pc, timer>>
  /\ UNCHANGED <<earlier, rejections, budget, inputVars, normVars, serverVars>>

\* Stored configurations of the specifications that explore more than one
\* session, or failures, per configuration.
SmallConfigs ==
  { MkConfig(10, 4, c, r, 7, 1) : c \in BOOLEAN, r \in {{"s1", "k1"}, {"g1", "g2"}} }

\* The Session page is unmounted (the effect's cleanup clears the timer) and
\* mounted again for another session: the component's state and refs are
\* new, the store, a module-level singleton that nothing resets, is the one
\* the earlier session left.  What the earlier session still has in flight
\* goes to its own log and is dropped here.  The next session runs the same
\* stored configuration.
Remount ==
  /\ ~earlier
  /\ pc \in {"running", "failed"}
  /\ earlier' = TRUE
  /\ raw' = raw
  /\ pc' = "init"
  /\ timer' = "unarmed"
  /\ stateRef' = store
  /\ log' = << >>
  /\ endCalls' = 0
  /\ pending' = << >>
  /\ calls' = [startSession |-> 0, endSession |-> 0]
  /\ scores' = << >>
  /\ rejections' = << >>
  /\ unknownCalls' = 0
  /\ UNCHANGED <<store, budget>>
  /\ UNCHANGED <<inputVars, normVars, serverVars>>

\* A session page mounted on the store as the module creates it.
FirstMount ==
  /\ store = InitialStore
  /\ stateRef = InitialStore
  /\ pc = "init"
  /\ timer = "unarmed"
  /\ log = << >>
  /\ endCalls = 0
  /\ pending = << >>
  /\ calls = [startSession |-> 0, endSession |-> 0]
  /\ scores = << >>
  /\ earlier = FALSE
  /\ rejections = << >>
  /\ unknownCalls = 0

SessionInit ==
  /\ FirstMount
  /\ raw \in Configs
  /\ budget = MaxClicks

SessionNext ==
  \/ LoadSessionConfig
  \/ LoadOk
  \/ LoadFail
  \/ StartAck
  \/ StartFail
  \/ TimerFire
  \/ \E i \in ScreenIds : ScreenClick(i)
  \/ \E k \in 1..Len(InputOrder) : KeyDown(k)
  \/ \E e \in SUBSET GamepadIds : PollFrame(e)
  \/ \E k \in 1..Len(InputOrder) : EndAck(k)
  \/ \E k \in 1..Len(InputOrder) : EndFail(k)

(* ------------------------- useExternalInput.ts -------------------------- *)

\* debounceMs = 50
DebounceMs == 50

\* const threshold = 0.5, in tenths of the axis range
Threshold == 5

\* Clock step and number of steps explored.
TickMs == 25
MaxTicks == 2

\* Raw activations explored per hook lifetime.
MaxArrivals == 3

\* Consecutive polls of a held control that are told apart.
MaxHeld == 3

\* Disconnections of the gamepad explored per hook lifetime.
MaxDisconnects == 1

\* Date.now() when the page loads: later than one debounce window after the
\* epoch, so that the first activation of an input is not debounced against
\* the default `?? 0`.
LoadTime == DebounceMs

AxisValues == {-10, -5, 10}

\* The inputs given to the hook; parts is what split('-') and parseInt make
\* of inputCode: the gamepad index, the button or axis index, the direction.
HookInputs ==
  << [id |-> "k1", type |-> "keyboard", inputCode |-> "KeyA", parts |-> [gp |-> 0, index |-> 0, dir |-> ""]],
     [id |-> "g1", type |-> "gamepad_button", inputCode |-> "gp-0-btn-0", parts |-> [gp |-> 0, index |-> 0, dir |-> ""]],
     [id |-> "g2", type |-> "gamepad_axis", inputCode |-> "gp-0-axis-0-neg", parts |-> [gp |-> 0, index |-> 0, dir |-> "neg"]] >>

HookIds == { HookInputs[k].id : k \in DOMAIN HookInputs }

\* keyboardMapRef and gamepadInputsRef
keyboardMap == SelectSeq(HookInputs, LAMBDA i : i.type = "keyboard")
gamepadInputs == SelectSeq(HookInputs, LAMBDA i : i.type # "keyboard" /\ i.type # "screen")

\* The mutant stamps lastTrigger also when it refuses.
canTriggerStamping(lastTrigger, inputId) ==
  [ok |-> ~(now - Get0(lastTrigger, inputId) < DebounceMs),
   lastTrigger |-> Put(lastTrigger, inputId, now)]

canTrigger(lastTrigger, inputId) ==
  IF now - Get0(lastTrigger, inputId) < DebounceMs
  THEN [ok |-> FALSE, lastTrigger |-> lastTrigger]
  ELSE [ok |-> TRUE, lastTrigger |-> Put(lastTrigger, inputId, now)]

\* What one event has done so far to the hook's refs and to the counters.
HookMachine ==
  [lastTrigger |-> hook.lastTrigger, prevGamepadState |-> hook.prevGamepadState,
   counted |-> counted, arrivals |-> arrivals, lastCountedAt |-> lastCountedAt]

\* onInputRef.current(id): while the hook is enabled the activation handler
\* of the same render accepts the activation (Session.tsx 166-173).
onInput(h, inputId) ==
  [h EXCEPT !.counted[inputId] = @ + 1, !.lastCountedAt[inputId] = now]

\* if (canTrigger(id)) onInputRef.current(id, type)
Trigger(h, inputId) ==
  LET t == canTrigger(h.lastTrigger, inputId)
      h1 == [h EXCEPT !.lastTrigger = t.lastTrigger]
  IN IF t.ok THEN onInput(h1, inputId) ELSE h1

\* isPressed of lines 97-111 for a connected gamepad gp.
isPressed(input, gp) ==
  IF input.type = "gamepad_button"
  THEN (IF input.parts.index + 1 \in DOMAIN gp.buttons THEN gp.buttons[input.parts.index + 1] ELSE FALSE)
  ELSE IF input.type = "gamepad_axis"
  THEN LET axisValue == IF input.parts.index + 1 \in DOMAIN gp.axes
                        THEN gp.axes[input.parts.index + 1] ELSE 0
       IN IF input.parts.dir = "pos" THEN axisValue > Threshold ELSE axisValue < -Threshold
  ELSE FALSE

\* navigator.getGamepads()[gpIndex]
Gamepad(gpIndex) == IF gpIndex = 0 /\ pad.connected THEN pad ELSE JNull

\* The mutant fires while the control is pressed, not on the press edge.
pollInputLevel(h, input) ==
  LET gp == Gamepad(input.parts.gp)
  IN IF gp = JNull THEN h
     ELSE LET pressed == isPressed(input, gp)
              h1 == IF pressed
                    THEN Trigger([h EXCEPT !.arrivals[input.id] = @ + 1], input.id)
                    ELSE h
          IN [h1 EXCEPT !.prevGamepadState = Put(@, input.inputCode, pressed)]

\* The body of poll's loop for one configured gamepad input.
pollInput(h, input) ==
  LET gp == Gamepad(input.parts.gp)
  IN IF gp = JNull THEN h
     ELSE LET pressed == isPressed(input, gp)
              wasPressedBefore ==
                IF input.inputCode \in DOMAIN h.prevGamepadState
                THEN h.prevGamepadState[input.inputCode] ELSE FALSE
              h1 == IF pressed /\ ~wasPressedBefore
                    THEN Trigger([h EXCEPT !.arrivals[input.id] = @ + 1], input.id)
                    ELSE h
          IN [h1 EXCEPT !.prevGamepadState = Put(@, input.inputCode, pressed)]

RECURSIVE pollLoop(_, _)
pollLoop(h, inputs) ==
  IF inputs = << >> THEN h ELSE pollLoop(pollInput(h, Head(inputs)), Tail(inputs))

HookCommit(h) ==
  /\ hook' = [lastTrigger |-> h.lastTrigger, prevGamepadState |-> h.prevGamepadState]
  /\ counted' = h.counted
  /\ arrivals' = h.arrivals
  /\ lastCountedAt' = h.lastCountedAt

RECURSIVE SumOver(_, _)
SumOver(f, ids) ==
  IF ids = {} THEN 0
  ELSE LET i == CHOOSE x \in ids : TRUE IN f[i] + SumOver(f, ids \ {i})

TotalArrivals == SumOver(arrivals, DOMAIN arrivals)

ControlOf(c) == CHOOSE i \in { gamepadInputs[k] : k \in DOMAIN gamepadInputs } : i.inputCode = c

\* One animation frame of the polling loop.
Poll ==
  /\ enabled = "on"
  /\ Len(gamepadInputs) > 0
  /\ LET h == pollLoop(HookMachine, gamepadInputs)
     IN /\ SumOver(h.arrivals, DOMAIN h.arrivals) <= MaxArrivals
        /\ HookCommit(h)
  /\ sampled' = [c \in DOMAIN sampled |->
                   IF pad.connected THEN isPressed(ControlOf(c), pad) ELSE sampled[c]]
  /\ heldPolls' = [c \in DOMAIN heldPolls |->
                     IF ~pad.connected THEN heldPolls[c]
                     ELSE IF ~isPressed(ControlOf(c), pad) THEN 0
                     ELSE IF heldPolls[c] < MaxHeld THEN heldPolls[c] + 1
                     ELSE heldPolls[c]]
  /\ reconnected' = (reconnected /\ ~pad.connected)
  /\ UNCHANGED <<now, enabled, pad, disconnects>>
  /\ UNCHANGED <<sessionVars, normVars, serverVars>>

\* handleKeyDown for a configured key.
HookKeyDown(k) ==
  /\ enabled = "on"
  /\ k \in DOMAIN keyboardMap
  /\ TotalArrivals < MaxArrivals
  /\ HookCommit(Trigger([HookMachine EXCEPT !.arrivals[keyboardMap[k].id] = @ + 1], keyboardMap[k].id))
  /\ UNCHANGED <<now, enabled, pad, sampled, heldPolls, disconnects, reconnected>>
  /\ UNCHANGED <<sessionVars, normVars, serverVars>>

\* onClick of an enabled screen button (Session.tsx 294-299): the handler is
\* called directly.
HookScreenClick(inputId) ==
  /\ enabled = "on"
  /\ TotalArrivals < MaxArrivals
  /\ HookCommit(onInput([HookMachine EXCEPT !.arrivals[inputId] = @ + 1], inputId))
  /\ UNCHANGED <<now, enabled, pad, sampled, heldPolls, disconnects, reconnected>>
  /\ UNCHANGED <<sessionVars, normVars, serverVars>>

\* The session starts: `enabled` turns true.
HookEnable ==
  /\ enabled = "idle"
  /\ enabled' = "on"
  /\ UNCHANGED <<now, pad, hook, counted, arrivals, lastCountedAt, sampled, heldPolls, disconnects, reconnected>>
  /\ UNCHANGED <<sessionVars, normVars, serverVars>>

\* The session ends: the listeners and the loop are removed, the refs reset.
HookDisable ==
  /\ enabled = "on"
  /\ enabled' = "off"
  /\ hook' = [lastTrigger |-> << >>, prevGamepadState |-> << >>]
  /\ UNCHANGED <<now, pad, counted, arrivals, lastCountedAt, sampled, heldPolls, disconnects, reconnected>>
  /\ UNCHANGED <<sessionVars, normVars, serverVars>>

Tick ==
  /\ enabled # "off"
  /\ now < LoadTime + MaxTicks * TickMs
  /\ now' = now + TickMs
  /\ UNCHANGED <<enabled, pad, hook, counted, arrivals, lastCountedAt, sampled, heldPolls, disconnects, reconnected>>
  /\ UNCHANGED <<sessionVars, normVars, serverVars>>

\* The participant presses or releases the button, or moves the stick.
PadMove(button, axis) ==
  /\ enabled # "off"
  /\ pad.connected
  /\ <<button>> # pad.buttons \/ <<axis>> # pad.axes
  /\ pad' = [pad EXCEPT !.buttons = <<button>>, !.axes = <<axis>>]
  /\ UNCHANGED <<now, enabled, hook, counted, arrivals, lastCountedAt, sampled, heldPolls, disconnects, reconnected>>
  /\ UNCHANGED <<sessionVars, normVars, serverVars>>

\* The gamepad is unplugged: navigator.getGamepads()[0] becomes null.
PadDisconnect ==
  /\ enabled # "off"
  /\ pad.connected
  /\ disconnects < MaxDisconnects
  /\ pad' = [pad EXCEPT !.connected = FALSE]
  /\ disconnects' = disconnects + 1
  /\ UNCHANGED <<now, enabled, hook, counted, arrivals, lastCountedAt, sampled, heldPolls, reconnected>>
  /\ UNCHANGED <<sessionVars, normVars, serverVars>>

\* It is plugged in again, its controls in any state.
PadConnect(button, axis) ==
  /\ enabled # "off"
  /\ ~pad.connected
  /\ pad' = [connected |-> TRUE, buttons |-> <<button>>, axes |-> <<axis>>]
  /\ reconnected' = TRUE
  /\ UNCHANGED <<now, enabled, hook, counted, arrivals, lastCountedAt, sampled, heldPolls, disconnects>>
  /\ UNCHANGED <<sessionVars, normVars, serverVars>>

InputIdle ==
  /\ now = LoadTime
  /\ enabled = "idle"
  /\ pad = [connected |-> TRUE, buttons |-> <<FALSE>>, axes |-> <<0>>]
  /\ hook = [lastTrigger |-> << >>, prevGamepadState |-> << >>]
  /\ counted = [i \in HookIds \cup ScreenIds |-> 0]
  /\ arrivals = [i \in HookIds \cup ScreenIds |-> 0]
  /\ lastCountedAt = [i \in HookIds \cup ScreenIds |-> -1]
  /\ sampled = [c \in { gamepadInputs[k].inputCode : k \in DOMAIN gamepadInputs } |-> FALSE]
  /\ heldPolls = [c \in { gamepadInputs[k].inputCode : k \in DOMAIN gamepadInputs } |-> 0]
  /\ disconnects = 0
  /\ reconnected = FALSE

InputInit ==
  /\ now = LoadTime
  /\ enabled = "idle"
  /\ pad \in [connected : {TRUE}, buttons : {<<FALSE>>, <<TRUE>>}, axes : {<<a>> : a \in AxisValues}]
  /\ hook = [lastTrigger |-> << >>, prevGamepadState |-> << >>]
  /\ counted = [i \in HookIds \cup ScreenIds |-> 0]
  /\ arrivals = [i \in HookIds \cup ScreenIds |-> 0]
  /\ lastCountedAt = [i \in HookIds \cup ScreenIds |-> -1]
  /\ sampled = [c \in { gamepadInputs[k].inputCode : k \in DOMAIN gamepadInputs } |-> FALSE]
  /\ heldPolls = [c \in { gamepadInputs[k].inputCode : k \in DOMAIN gamepadInputs } |-> 0]
  /\ disconnects = 0
  /\ reconnected = FALSE

InputNext ==
  \/ Poll
  \/ \E k \in DOMAIN keyboardMap : HookKeyDown(k)
  \/ \E i \in ScreenIds : HookScreenClick(i)
  \/ HookEnable
  \/ HookDisable
  \/ Tick
  \/ \E b \in BOOLEAN, a \in AxisValues : PadMove(b, a)

(* ------------------------- server: sessions ----------------------------- *)

\* POST /sessions/start requests explored.
MaxStarts == 4

\* DELETE /sessions/:sessionId requests explored.
MaxDeletes == 2

ParticipantIds == {"p", "q"}

\* SELECT COUNT(*) as sessionCount FROM sessions WHERE participantId = ?
getMaxSessionIdForParticipant(participantId) ==
  Cardinality({ r \in rows : r.participantId = participantId })

\* `${participantId}-${sequenceNumber}`
GenerateSessionId(participantId) ==
  participantId \o "-" \o ToString(getMaxSessionIdForParticipant(participantId) + 1)

StoredIds == { r.sessionId : r \in rows }

\* POST /sessions/start: 404 without the configuration; otherwise the id is
\* generated and the row inserted.  sessionId is the table's primary key, so
\* inserting a stored id throws and the route answers 500.
StartSessionRequest(participantId, configExists) ==
  /\ starts < MaxStarts
  /\ starts' = starts + 1
  /\ IF ~configExists
     THEN /\ lastStart' = [status |-> 404, sessionId |-> "", existed |-> FALSE]
          /\ UNCHANGED rows
     ELSE LET sessionId == GenerateSessionId(participantId)
          IN IF sessionId \in StoredIds
             THEN /\ lastStart' = [status |-> 500, sessionId |-> sessionId, existed |-> TRUE]
                  /\ UNCHANGED rows
             ELSE /\ lastStart' = [status |-> 201, sessionId |-> sessionId, existed |-> FALSE]
                  /\ rows' = rows \cup {[sessionId |-> sessionId, participantId |-> participantId]}
  /\ UNCHANGED deletes
  /\ UNCHANGED <<sessionVars, inputVars, normVars>>

\* DELETE /sessions/:sessionId of a stored session.
DeleteSessionRequest(sessionId) ==
  /\ deletes < MaxDeletes
  /\ sessionId \in StoredIds
  /\ deletes' = deletes + 1
  /\ rows' = { r \in rows : r.sessionId # sessionId }
  /\ UNCHANGED <<lastStart, starts>>
  /\ UNCHANGED <<sessionVars, inputVars, normVars>>

\* The ids a client can hold: those the server may have generated.
RequestIds == { p \o "-" \o ToString(n) : p \in ParticipantIds, n \in 1..MaxStarts }

ServerIdle ==
  /\ rows = {}
  /\ lastStart = [status |-> 0, sessionId |-> "", existed |-> FALSE]
  /\ starts = 0
  /\ deletes = 0

ServerNext ==
  \/ \E p \in ParticipantIds, c \in BOOLEAN : StartSessionRequest(p, c)
  \/ \E i \in RequestIds : DeleteSessionRequest(i)

(* ------------------------- normalizer runs ------------------------------ *)

LegacyButtons == {JNull, JObj([shape |-> JStr("square"), color |-> JStr("#ff0000")]), JObj([shape |-> JStr("none")])}

ExternalInput ==
  JObj([id |-> JStr("ext-1"), inputType |-> JStr("gamepad_button"),
        inputCode |-> JStr("gp-0-btn-0"), isActive |-> JBool(TRUE),
        moneyAwarded |-> JNum(25)])

\* Stored configurations handed to the normalizer: legacy and current shapes,
\* fields absent, of the documented type, or of another type.
RawConfigs ==
  { JObj([inputs |-> i, leftButton |-> lb, middleButton |-> mb, rightButton |-> rb,
          buttonActive |-> ba, moneyAwarded |-> ma, awardInterval |-> ai,
          playAwardSound |-> JNull, externalInputs |-> ei,
          timeLimit |-> tl, moneyLimit |-> ml, startingMoney |-> sm,
          continueAfterMoneyLimit |-> ca]) :
      i \in {JNull, JStr("x"), JArr(<< >>), JArr(<<MkInput("s1", TRUE, 7, 1)>>)},
      lb \in LegacyButtons, mb \in {JNull, JObj([color |-> JStr("#00ff00")])},
      rb \in {JNull, JBool(FALSE), JObj([shape |-> JStr("circle")])},
      ba \in {JNull, JStr("left"), JStr("middle"), JStr("right"), JStr("none")},
      ma \in {JNull, JNum(25), JStr("25")}, ai \in {JNull, JNum(3)},
      ei \in {JNull, JArr(<<ExternalInput>>)},
      tl \in {JNull, JNum(30), JStr("abc")}, ml \in {JNull, JNum(0)},
      sm \in {JNull, JNum(5)}, ca \in {JNull, JBool(FALSE)} }
  \cup { JObj(<< >>) }

Normalize ==
  /\ npc = "raw"
  /\ nout' = normalizeConfig(nraw)
  /\ npc' = "normalized"
  /\ UNCHANGED <<nraw, nout2>>
  /\ UNCHANGED <<sessionVars, inputVars, serverVars>>

Renormalize ==
  /\ npc = "normalized"
  /\ nout2' = normalizeConfig(nout)
  /\ npc' = "renormalized"
  /\ UNCHANGED <<nraw, nout>>
  /\ UNCHANGED <<sessionVars, inputVars, serverVars>>

NormIdle ==
  /\ nraw = JObj(<< >>)
  /\ nout = JNull
  /\ nout2 = JNull
  /\ npc = "raw"

NormInit ==
  /\ nraw \in RawConfigs
  /\ nout = JNull
  /\ nout2 = JNull
  /\ npc = "raw"

NormNext ==
  \/ Normalize
  \/ Renormalize

SessionIdle ==
  /\ FirstMount
  /\ raw = JObj(<< >>)
  /\ budget = MaxClicks

(* --------------------------- specifications ---------------------------- *)

\* One session, from the page's mount on.
Init == SessionInit /\ InputIdle /\ NormIdle /\ ServerIdle

Next == SessionNext

Spec == Init /\ [][Next]_vars

\* Two sessions, one after the other, on one store.
InitReuse ==
  /\ FirstMount /\ raw \in SmallConfigs /\ budget = MaxReuseClicks
  /\ InputIdle /\ NormIdle /\ ServerIdle

NextReuse == SessionNext \/ Remount

SpecReuse == InitReuse /\ [][NextReuse]_vars

\* An armed timer elapses: setTimeout runs its callback.
SpecReuseFair == SpecReuse /\ WF_vars(TimerFire)

\* One session with failing `click` appends and unknown input ids.
InitFaults ==
  /\ FirstMount /\ raw \in SmallConfigs /\ budget = MaxFaultClicks
  /\ InputIdle /\ NormIdle /\ ServerIdle

NextFaults == SessionNext \/ ClickAppendFail \/ UnknownActivation

SpecFaults == InitFaults /\ [][NextFaults]_vars

\* The external input hook and the screen buttons of one session.
InitInput == SessionIdle /\ InputInit /\ NormIdle /\ ServerIdle

NextInput == InputNext

SpecInput == InitInput /\ [][NextInput]_vars

\* The hook with a gamepad that disconnects and reconnects.
InitPad == SessionIdle /\ InputInit /\ NormIdle /\ ServerIdle

NextPad == InputNext \/ PadDisconnect \/ \E b \in BOOLEAN, a \in AxisValues : PadConnect(b, a)

SpecPad == InitPad /\ [][NextPad]_vars

\* The normalizer applied to stored configurations, twice.
InitNorm == SessionIdle /\ InputIdle /\ NormInit /\ ServerIdle

NextNorm == NormNext

SpecNorm == InitNorm /\ [][NextNorm]_vars

\* The server's session routes: starts and deletions in any order.
InitServer == SessionIdle /\ InputIdle /\ NormIdle /\ ServerIdle

NextServer == ServerNext

SpecServer == InitServer /\ [][NextServer]_vars

(* ------------------------------ properties ----------------------------- *)

Config == store.config

Loaded == store.config # JNull

\* pending -> active -> ended, read off the store and its history.
Phase ==
  IF store.sessionActive THEN "active"
  ELSE IF calls.endSession > 0 THEN "ended"
  ELSE "pending"

EndRecords == { k \in DOMAIN log : log[k].event = "end" }

\* C1: for one session, whatever the order of the time-limit timer and a
\* ceiling-crossing activation (continueAfterMoneyLimit = false), exactly one
\* `end` record is appended to the event log.
C1_ExactlyOneEndRecord ==
  (Loaded /\ ~Config.continueAfterMoneyLimit /\ timer = "fired" /\ store.moneyLimitReached)
    => Cardinality(EndRecords) = 1

\* C2: the runtime balance after any activation never exceeds the ceiling.
C2_BalanceNeverExceedsCeiling ==
  \A k \in DOMAIN scores : scores[k].after <= Config.moneyLimit

\* C3: once the phase is ended, no step changes the balance, the per-input
\* activation counts or the total activation count.
C3_EndedFreezesCounters ==
  [][Phase = "ended" =>
       /\ store'.moneyCounter = store.moneyCounter
       /\ store'.inputClickCounts = store.inputClickCounts
       /\ store'.totalClicks = store.totalClicks]_vars

RewardedIds ==
  IF Loaded THEN { i \in InputIdsOf(Config) : FindInput(Config, i).isRewarded } ELSE {}

PhaseStep(p, q) ==
  \/ p = q
  \/ p = "pending" /\ q = "active"
  \/ p = "active" /\ q = "ended"

\* C4: within a session the phase only moves pending -> active -> ended:
\* startSession runs at most once, and once the session has ended it never
\* becomes active again.
C4_PhaseMonotonic ==
  /\ [](calls.startSession <= 1)
  /\ [][PhaseStep(Phase, Phase')]_vars

\* Ended by the ceiling and then the timer has fired: endSession ran twice.
C4_Witness ==
  /\ Phase = "ended"
  /\ calls.startSession = 1
  /\ calls.endSession = 2
  /\ timer = "fired"
  /\ store.moneyLimitReached

\* C5: an activation that completes its award interval with balance b below
\* the ceiling C awards C - b, leaves the balance at C and reports the
\* ceiling when b + rewardAmount >= C, and awards rewardAmount without
\* reporting the ceiling otherwise.
C5_AwardClampedToCeiling ==
  \A k \in DOMAIN scores :
    LET s == scores[k]
        R == FindInput(Config, s.inputId).moneyAwarded
        C == Config.moneyLimit
    IN (s.completed /\ s.before < C) =>
         IF s.before + R >= C
         THEN s.after = C /\ s.limitReachedAfter /\ ~s.limitReachedBefore
         ELSE s.after = s.before + R /\ ~s.limitReachedAfter

\* C6: while the ceiling is not reached, the k-th activation of a rewarded
\* input is rewarded exactly when k is a multiple of its activationsPerReward
\* N, and its interval counter is the number of its activations since its
\* last reward (in 0..N-1), whatever the other inputs do.
C6_IntervalCadence ==
  /\ \A k \in DOMAIN scores :
       LET s == scores[k]
           inputConfig == FindInput(Config, s.inputId)
       IN (inputConfig.isRewarded /\ ~s.limitReachedBefore) =>
            (s.completed <=> s.count % inputConfig.awardInterval = 0)
  /\ ~store.moneyLimitReached =>
       \A i \in RewardedIds :
         LET N == FindInput(Config, i).awardInterval
         IN /\ store.inputIntervalCounters[i] = store.inputClickCounts[i] % N
            /\ store.inputIntervalCounters[i] \in 0..(N - 1)

\* A reward at the third activation of an input with N = 3, none at its
\* first two, with another input activated in between.
C6_Witness ==
  /\ ~store.moneyLimitReached
  /\ \E k \in DOMAIN scores :
       /\ scores[k].completed
       /\ scores[k].count = 3
       /\ FindInput(Config, scores[k].inputId).awardInterval = 3
       /\ \E j \in 1..(k - 1) : scores[j].inputId # scores[k].inputId
       /\ store.inputIntervalCounters[scores[k].inputId] = 0

\* C7: with continueAfterMoneyLimit = true, an activation accepted after the
\* ceiling was reached increments its input's activation count and leaves
\* the balance at the ceiling.
C7_PostCeilingCountsOnly ==
  (Loaded /\ Config.continueAfterMoneyLimit) =>
    \A k \in DOMAIN scores :
      scores[k].limitReachedBefore =>
        /\ scores[k].count = scores[k].countBefore + 1
        /\ scores[k].after = scores[k].before
        /\ scores[k].after = Config.moneyLimit

\* No counted activation of the input yet, or the last one at least one
\* debounce window ago.
OutsideWindow(id) == lastCountedAt[id] = -1 \/ now - lastCountedAt[id] >= DebounceMs

Debounced(ids) ==
  \A id \in ids :
    /\ counted'[id] \in {counted[id], counted[id] + 1}
    /\ counted'[id] # counted[id] => arrivals'[id] = arrivals[id] + 1
    /\ arrivals'[id] = arrivals[id] + 1 =>
         (counted'[id] = counted[id] + 1 <=> OutsideWindow(id))

C9_EdgeTriggered ==
  [][disconnects = 0 =>
       \A k \in DOMAIN gamepadInputs :
         LET g == gamepadInputs[k].id
             c == gamepadInputs[k].inputCode
         IN /\ counted'[g] # counted[g] =>
                 /\ counted'[g] = counted[g] + 1
                 /\ isPressed(gamepadInputs[k], pad)
                 /\ ~sampled[c]
            /\ (sampled'[c] /\ ~sampled[c] /\ OutsideWindow(g)) =>
                 counted'[g] = counted[g] + 1]_vars

\* A control held over three polls and a whole debounce window: one
\* activation.
C9_Witness ==
  \E k \in DOMAIN gamepadInputs :
    LET g == gamepadInputs[k].id
        c == gamepadInputs[k].inputCode
    IN /\ counted[g] = 1
       /\ arrivals[g] = 1
       /\ heldPolls[c] >= 3
       /\ now - lastCountedAt[g] >= DebounceMs

\* C10: normalizing a normalized configuration changes nothing.
C10_NormalizeIdempotent == npc = "renormalized" => nout2 = nout

C10_Witness ==
  /\ npc = "renormalized"
  /\ isLegacyConfig(nraw)
  /\ Len(nout.o.inputs.a) >= 3
  /\ nout2 = nout

\* A stored legacy configuration as LegacyBaseConfig declares it and as the
\* server's schema stores it: its three buttons are objects.
ThreeButtons(r) ==
  \A k \in DOMAIN ButtonPositions : Prop(r, ButtonPositions[k] \o "Button").t = "obj"

ScreenInputsOf(out) ==
  { k \in DOMAIN out.o.inputs.a : out.o.inputs.a[k].o.type = JStr("screen") }

C12_EmptyObjectDefaults ==
  (npc # "raw" /\ DOMAIN nraw.o = {}) =>
    /\ nout.o.timeLimit = JNum(60)
    /\ nout.o.moneyLimit = JNum(1000000)
    /\ nout.o.startingMoney = JNum(0)
    /\ Len(nout.o.inputs.a) = 1
    /\ nout.o.inputs.a[1].o.type = JStr("screen")

\* The `start` append of the mounted session is acknowledged.
StartAcknowledged == pc = "running"

\* C13: while the `start` append is not acknowledged (not yet issued,
\* outstanding or failed) the session is not active, no timer is armed, no
\* activation has been scored and no `click` record has been issued.
C13_ActiveOnlyAfterStartAck ==
  ~StartAcknowledged =>
    /\ ~store.sessionActive
    /\ timer = "unarmed"
    /\ scores = << >>
    /\ ClickRecords = {}

\* C14: the engine issues the "mark session ended" request at most once in a
\* session, and it has issued it once the session has an `end` record.
C14_EndCallIssuedOnce ==
  /\ endCalls <= 1
  /\ (EndRecords # {} => endCalls >= 1)

\* The `end` records appended by the current step.
NewEndRecords == { k \in DOMAIN log' : k > Len(log) /\ log'[k].event = "end" }

\* C15: an `end` record carries the runtime state of the moment the session
\* ends: the balance, the per-input counts, the total and the two limit flags
\* of the store as the terminating step leaves it.
C15_EndRecordCarriesState ==
  [][\A k \in NewEndRecords :
        /\ log'[k].moneyCounter = store'.moneyCounter
        /\ log'[k].clicks = store'.inputClickCounts
        /\ log'[k].totalClicks = store'.totalClicks
        /\ log'[k].moneyLimitReached = store'.moneyLimitReached
        /\ log'[k].timeLimitReached = store'.timeLimitReached]_vars

\* C16: with continueAfterMoneyLimit = true a started session has no `end`
\* record and stays active while its timer is pending, ceiling reached or
\* not; once the timer has fired the session is ended with exactly one `end`
\* record, whose timeLimitReached is true and whose moneyLimitReached is true
\* when the ceiling was reached.
C16_ContinueEndsByTimer ==
  (StartAcknowledged /\ Loaded /\ Config.continueAfterMoneyLimit) =>
    /\ timer = "armed" => (EndRecords = {} /\ store.sessionActive)
    /\ timer = "fired" =>
         /\ ~store.sessionActive
         /\ Cardinality(EndRecords) = 1
         /\ \A k \in EndRecords :
              /\ log[k].timeLimitReached
              /\ store.moneyLimitReached => log[k].moneyLimitReached

\* C17: an activation whose inputId is not in the configured input list is a
\* no-op: the step changes no count, no balance, no flag, no phase, no timer,
\* and issues no record and no request.
C17_UnknownInputNoOp ==
  [][unknownCalls' # unknownCalls =>
       UNCHANGED <<store, stateRef, pc, timer, log, endCalls, pending, calls, scores>>]_vars

\* The unknown id was offered to a started session that accepts and scores
\* the activations of its configured inputs.
C17_Witness ==
  /\ unknownCalls = MaxUnknown
  /\ StartAcknowledged /\ store.sessionActive
  /\ ClickRecords # {}
  /\ UnknownId \notin { store.config.inputs[k].id : k \in DOMAIN store.config.inputs }

\* C18: when the append of a `click` record is rejected the caller of the
\* activation handler gets the rejection, and the step changes nothing else:
\* counts, interval counters, balance and limit flags keep the activation's
\* effect, the phase and the timer stay as they were, and the rendered state
\* that decides whether activations are accepted is the same.
C18_ClickAppendFailureKeepsState ==
  [][rejections' # rejections =>
       /\ Len(rejections') = Len(rejections) + 1
       /\ UNCHANGED <<store, stateRef, pc, timer, log, endCalls, pending, calls, scores>>]_vars

\* A `click` append was rejected after its activation was counted, the count
\* is still in the store, and an activation scored after the rejection.
C18_Witness ==
  /\ \E k \in DOMAIN rejections : 0 < rejections[k] /\ rejections[k] < Len(scores)
  /\ store.totalClicks = Len(scores)
  /\ store.sessionActive

\* The load of the mounted session has failed: loadSessionConfig ended in its
\* catch block before the `start` record was issued.
LoadFailed == pc = "failed" /\ \A k \in DOMAIN log : log[k].event # "start"

\* C19: after a failed load the session is not active, no timer is armed, no
\* activation has been scored and no record has been appended.
C19_LoadFailureIsTerminal ==
  LoadFailed =>
    /\ ~store.sessionActive
    /\ timer = "unarmed"
    /\ scores = << >>
    /\ log = << >>

\* C20: every numeric field of a normalized configuration is a number:
\* timeLimit, moneyLimit, startingMoney, and moneyAwarded and awardInterval
\* of each input; a stored value that is not a number was parsed or replaced
\* by the default.
C20_NumericFieldsAreIntegers ==
  npc # "raw" =>
    /\ \A f \in {"timeLimit", "moneyLimit", "startingMoney"} : Prop(nout, f).t = "num"
    /\ IsArray(Prop(nout, "inputs")) =>
         \A k \in DOMAIN nout.o.inputs.a :
           /\ Prop(nout.o.inputs.a[k], "moneyAwarded").t = "num"
           /\ Prop(nout.o.inputs.a[k], "awardInterval").t = "num"

\* C4, every session of a page load: within a session (every step but the
\* mount of the next session) the phase only moves pending -> active ->
\* ended, and startSession runs at most once.
C4_PhaseMonotonicEverySession ==
  /\ [](calls.startSession <= 1)
  /\ [][earlier' = earlier => PhaseStep(Phase, Phase')]_vars

\* The session was ended by the ceiling: the ceiling is reached and the
\* configuration does not continue after it.
EndedByCeiling ==
  Loaded /\ ~Config.continueAfterMoneyLimit /\ store.moneyLimitReached /\ EndRecords # {}

\* C21: once the session has ended by the ceiling the time-limit timer does
\* not fire any more and timeLimitReached stays false.
C21_TimerCancelledByCeilingEnd ==
  EndedByCeiling => (timer # "fired" /\ ~store.timeLimitReached)

\* C22: every accepted activation is scored against the balance and the
\* ceiling flag that the previously scored activation left in the store.
C22_ScoringSerialized ==
  \A k \in DOMAIN scores :
    /\ scores[k].seenBalance = scores[k].before
    /\ scores[k].seenLimitReached = scores[k].limitReachedBefore

\* The step is the first poll that samples the gamepad after a reconnection.
FirstPollAfterReconnect == reconnected /\ ~reconnected'

\* C23: at the first poll after a reconnection a control that is pressed
\* emits no activation, whatever its state at the last poll before the
\* disconnection.
C23_ReconnectBaseline ==
  [][FirstPollAfterReconnect =>
       \A k \in DOMAIN gamepadInputs :
         isPressed(gamepadInputs[k], pad) =>
           counted'[gamepadInputs[k].id] = counted[gamepadInputs[k].id]]_vars

\* The `end` records written by handleMoneyLimitEnd: the time-limit handler
\* always writes timeLimitReached = true, the ceiling handler writes the
\* flag of its closure, false while the session accepts rewarded activations.
CeilingEndRecords == { k \in EndRecords : ~log[k].timeLimitReached }

\* C24: moneyLimitReached and timeLimitReached never return to false, and the
\* ceiling report takes effect at most once in a session: at most one `end`
\* record comes from the ceiling handler.
C24_LimitFlagsSetOnce ==
  /\ [][/\ store.moneyLimitReached => store'.moneyLimitReached
        /\ store.timeLimitReached => store'.timeLimitReached]_vars
  /\ [](Cardinality(CeilingEndRecords) <= 1)

\* C25: every `click` record describes the state right after its activation
\* was scored: it is the record of the k-th accepted activation for some k,
\* with totalClicks = k, the balance after that activation, the amount it
\* awarded and its input's count after it.
C25_ClickRecordCarriesState ==
  \A r \in ClickRecords :
    \E k \in DOMAIN scores :
      /\ scores[k].inputId = log[r].inputId
      /\ log[r].totalClicks = k
      /\ log[r].moneyCounter = scores[k].after
      /\ log[r].awardedCents = scores[k].after - scores[k].before
      /\ log[r].clicks[log[r].inputId] = scores[k].count

\* C26: a session that has become active reaches phase ended, given that its
\* armed timer fires.  Stated for the session that is mounted last, which no
\* navigation interrupts.
C26_ActiveSessionEnds ==
  (earlier /\ StartAcknowledged) ~> (Phase = "ended")

\* setConfig creates the counters of the session (loadSessionConfig).
ConfigIsSet == pc = "loading" /\ pc' = "starting"

\* C27: every accepted activation adds exactly 1 to its input's count and 1
\* to the total, whether the input is rewarded or not and whether the
\* ceiling is reached or not; once the session's counters are created no
\* count decreases; the total is the sum of the per-input counts.
C27_CountsEveryActivation ==
  /\ [](\A k \in DOMAIN scores : scores[k].count = scores[k].countBefore + 1)
  /\ [](store.totalClicks = SumOver(store.inputClickCounts, DOMAIN store.inputClickCounts))
  /\ [][~ConfigIsSet =>
         /\ store'.totalClicks - store.totalClicks = Len(scores') - Len(scores)
         /\ DOMAIN store.inputClickCounts \subseteq DOMAIN store'.inputClickCounts
         /\ \A i \in DOMAIN store.inputClickCounts :
              store'.inputClickCounts[i] >= store.inputClickCounts[i]]_vars

\* Three activations are counted: one of an input that is not rewarded and
\* one accepted after the ceiling was reached.
C27_Witness ==
  /\ store.totalClicks = 3 /\ Len(scores) = 3
  /\ \E k \in DOMAIN scores : ~FindInput(Config, scores[k].inputId).isRewarded
  /\ \E k \in DOMAIN scores : scores[k].limitReachedBefore /\ scores[k].count = scores[k].countBefore + 1

\* The session becomes active: startSession() after the acknowledged `start`.
BecomesActive == pc = "starting" /\ pc' = "running"

\* C28: at the moment a session becomes active its runtime state is fresh, as
\* its `start` record states: the balance is startingMoney, every activation
\* and interval counter is 0 and both limit flags are false.
C28_FreshStatePerSession ==
  [][BecomesActive =>
       /\ store'.moneyCounter = store'.config.startingMoney
       /\ store'.totalClicks = 0
       /\ \A i \in DOMAIN store'.inputClickCounts : store'.inputClickCounts[i] = 0
       /\ \A i \in DOMAIN store'.inputIntervalCounters : store'.inputIntervalCounters[i] = 0
       /\ ~store'.moneyLimitReached
       /\ ~store'.timeLimitReached]_vars

\* C29: in the order in which the append requests are issued the `start`
\* record is first and no `click` record comes after an `end` record.
C29_StartFirstEndLast ==
  /\ log # << >> => log[1].event = "start"
  /\ \A e \in EndRecords : \A c \in ClickRecords : c < e

\* C30: a start for an existing configuration never generates a stored
\* sessionId: it answers 201 and has inserted a row with a new id.
C30_SessionIdFresh ==
  lastStart.status \notin {0, 404} =>
    /\ ~lastStart.existed
    /\ lastStart.status = 201

====
